---- MODULE Spec2Model ----
(***************************************************************************)
(* Model of the user / weather pipeline of jstaskZod: the Zod user schema, *)
(* RetryHelper.retryApiCall, UserService (cache + fetch + validation) and  *)
(* UserWeatherConverter.                                                   *)
(*                                                                         *)
(* The repository ships two builds of the service and the converter: the   *)
(* compiled one under dist/ (UserValidator class, Zod validation of cache  *)
(* reads) and the TypeScript sources (free functions, a shallow check of   *)
(* cache reads).  The variable `build` says which one runs.                *)
(***************************************************************************)
EXTENDS Integers, Sequences, FiniteSets, TLC

(***************************************************************************)
(* Bounds of the model.                                                    *)
(***************************************************************************)
MaxAttemptsBound == 3   \* largest maxAttempts option tried
MaxListLen == 2         \* longest user list in a cache entry or API response
MaxCount == 2           \* largest count passed to getUsers

(***************************************************************************)
(* Untrusted JSON values.  A string is a sequence of one-character         *)
(* strings; a property is a tagged value so that a missing property and a  *)
(* string never get compared as values of different types.                 *)
(***************************************************************************)
Undefined == [t |-> "undefined", v |-> <<>>]
Str(s) == [t |-> "string", v |-> s]

RECURSIVE TrimStart(_)
TrimStart(s) ==
    IF s # <<>> /\ Head(s) = " " THEN TrimStart(Tail(s)) ELSE s

RECURSIVE TrimEnd(_)
TrimEnd(s) ==
    IF s # <<>> /\ s[Len(s)] = " " THEN TrimEnd(SubSeq(s, 1, Len(s) - 1)) ELSE s

\* only leading whitespace removed
TrimStartOnly(s) == TrimStart(s)

\* String.prototype.trim, which Zod's trim check applies
Trim(s) == TrimEnd(TrimStart(s))

\* WHATWG `new URL(s)` with no base, on the token alphabet used for
\* picture.large: a scheme token, then "//", then a non-empty host.
UrlSchemes == {"https:", "http:"}
IsUrl(s) ==
    /\ Len(s) >= 3
    /\ s[1] \in UrlSchemes
    /\ s[2] = "//"
    /\ \A i \in 3..Len(s) : s[i] \notin UrlSchemes \cup {"//", " "}

(***************************************************************************)
(* A raw user: the object (or null), its three nested objects (present or  *)
(* not) and their five leaf properties.                                    *)
(***************************************************************************)
RawUser(isObj, hasName, first, last, hasLocation, city, country, hasPicture, large) ==
    [obj |-> isObj,
     hasName |-> hasName, first |-> first, last |-> last,
     hasLocation |-> hasLocation, city |-> city, country |-> country,
     hasPicture |-> hasPicture, large |-> large]

NullUser ==
    RawUser(FALSE, FALSE, Undefined, Undefined, FALSE, Undefined, Undefined,
            FALSE, Undefined)

GoodUrl == Str(<<"https:", "//", "h">>)
MkUser(first, last, city, country, large) ==
    RawUser(TRUE, TRUE, first, last, TRUE, city, country, TRUE, large)

UserA == MkUser(Str(<<"a">>), Str(<<"b">>), Str(<<"c">>), Str(<<"d">>), GoodUrl)
UserB == MkUser(Str(<<"b">>), Str(<<"b">>), Str(<<"c">>), Str(<<"d">>), GoodUrl)
\* accepted, and changed by trimming
UserPadded == MkUser(Str(<<" ", "a">>), Str(<<"b", " ">>), Str(<<"c">>), Str(<<"d">>), GoodUrl)
\* whitespace-only first name: one character long
UserBlank == MkUser(Str(<<" ">>), Str(<<"b">>), Str(<<"c">>), Str(<<"d">>), GoodUrl)
UserEmptyCity == MkUser(Str(<<"a">>), Str(<<"b">>), Str(<<>>), Str(<<"d">>), GoodUrl)
UserNoCountry == MkUser(Str(<<"a">>), Str(<<"b">>), Str(<<"c">>), Undefined, GoodUrl)
UserBadUrl == MkUser(Str(<<"a">>), Str(<<"b">>), Str(<<"c">>), Str(<<"d">>), Str(<<"x">>))
UserNoLocation ==
    RawUser(TRUE, TRUE, Str(<<"a">>), Str(<<"b">>), FALSE, Undefined, Undefined,
            TRUE, GoodUrl)

(***************************************************************************)
(* The Zod schemas.  A parse result is [ok, data, issues]: data is the     *)
(* parsed value when ok, issues the paths Zod reports otherwise.           *)
(***************************************************************************)
\* z.string().min(1).trim(): the checks run in the order they were added,
\* so the length is tested on the string as given and trimming comes after.
NonEmptyTrimmed(f) ==
    IF f.t # "string" THEN [ok |-> FALSE, data |-> Undefined]
    ELSE IF Len(f.v) < 1 THEN [ok |-> FALSE, data |-> Undefined]
    ELSE [ok |-> TRUE, data |-> Str(Trim(f.v))]

\* z.string().url()
UrlString(f) ==
    IF f.t = "string" /\ IsUrl(f.v) THEN [ok |-> TRUE, data |-> f]
    ELSE [ok |-> FALSE, data |-> Undefined]

Issue(cond, path) == IF cond THEN <<>> ELSE <<path>>

UserSchema(u) ==
    LET first == NonEmptyTrimmed(u.first)
        last == NonEmptyTrimmed(u.last)
        city == NonEmptyTrimmed(u.city)
        country == NonEmptyTrimmed(u.country)
        large == UrlString(u.large)
        issues ==
            IF ~u.obj THEN <<"">>
            ELSE (IF ~u.hasName THEN <<"name">>
                  ELSE Issue(first.ok, "name.first") \o Issue(last.ok, "name.last"))
              \o (IF ~u.hasLocation THEN <<"location">>
                  ELSE Issue(city.ok, "location.city")
                         \o Issue(country.ok, "location.country"))
              \o (IF ~u.hasPicture THEN <<"picture">>
                  ELSE Issue(large.ok, "picture.large"))
    IN  IF issues = <<>>
        THEN [ok |-> TRUE,
              data |-> MkUser(first.data, last.data, city.data, country.data, large.data),
              issues |-> <<>>]
        ELSE [ok |-> FALSE, data |-> NullUser, issues |-> issues]

\* A JSON value that is meant to be a user list: an array or anything else.
Absent == [t |-> "absent", v |-> <<>>]
List(us) == [t |-> "list", v |-> us]
NotAList == [t |-> "object", v |-> <<>>]

\* an empty array accepted
UsersArraySchemaAllowsEmpty(x) ==
    IF x.t # "list" THEN [ok |-> FALSE, data |-> <<>>, issues |-> <<"">>]
    ELSE IF \E i \in 1..Len(x.v) : ~UserSchema(x.v[i]).ok
    THEN [ok |-> FALSE, data |-> <<>>, issues |-> <<"element">>]
    ELSE [ok |-> TRUE, data |-> [i \in 1..Len(x.v) |-> UserSchema(x.v[i]).data],
          issues |-> <<>>]

\* z.array(UserSchema).min(1)
UsersArraySchema(x) ==
    IF x.t # "list" THEN [ok |-> FALSE, data |-> <<>>, issues |-> <<"">>]
    ELSE IF \E i \in 1..Len(x.v) : ~UserSchema(x.v[i]).ok
    THEN [ok |-> FALSE, data |-> <<>>, issues |-> <<"element">>]
    ELSE IF Len(x.v) < 1 THEN [ok |-> FALSE, data |-> <<>>, issues |-> <<"">>]
    ELSE [ok |-> TRUE, data |-> [i \in 1..Len(x.v) |-> UserSchema(x.v[i]).data],
          issues |-> <<>>]

\* z.object({results: z.array(UserSchema).min(1), info: ... .optional()});
\* a response is modelled by its results property.
UserApiResponseSchema(r) ==
    LET res == UsersArraySchema(r.results)
    IN  IF res.ok THEN [ok |-> TRUE, data |-> [results |-> res.data], issues |-> <<>>]
        ELSE [ok |-> FALSE, data |-> [results |-> <<>>], issues |-> <<"results">>]

(***************************************************************************)
(* Thrown values.  obj is the identity of the thrown object: the place     *)
(* that created it and the attempt during which it was created.            *)
(***************************************************************************)
Thrown(site, k, isError, name, message) ==
    [obj |-> [site |-> site, n |-> k], isError |-> isError, name |-> name,
     message |-> message]

NoError == Thrown("none", 0, FALSE, "none", <<>>)

\* String(error) for a thrown value that is not an Error
StringOf(x) == x.message

\* every caught value wrapped in a new Error
AsErrorAlwaysWrapped(x, site, k) == Thrown(site, k, TRUE, "Error", StringOf(x))

\* `error instanceof Error ? error : new Error(String(error))`, evaluated at
\* `site` during attempt k
AsError(x, site, k) ==
    IF x.isError THEN x ELSE Thrown(site, k, TRUE, "Error", StringOf(x))

\* v is a JSON value: a list, or null
NoResult == [t |-> "none", v |-> [t |-> "absent", v |-> <<>>], e |-> NoError]
Returned(v) == [t |-> "value", v |-> v, e |-> NoError]
Raised(e) == [t |-> "error", v |-> [t |-> "absent", v |-> <<>>], e |-> e]

(***************************************************************************)
(* State.  Callers are the asynchronous calls that may be in flight; every *)
(* per-call variable is a function over them.                              *)
(***************************************************************************)
Callers == {1, 2}

VARIABLES
    build,      \* "dist" or "src": which build of the service / converter runs
    cache,      \* CacheManager's entry under CACHE_KEYS.USERS
    pc,         \* per call: "idle", "running" (awaiting the operation),
                \* "sleeping" (awaiting the backoff delay), "returned", "failed"
    op,         \* per call: the operation retryApiCall wraps ("none", "generic", "users")
    opts,       \* per call: the RetryOptions
    attempt,    \* per call: the loop variable of retryApiCall
    lastError,  \* per call: retryApiCall's lastError
    result,     \* per call: what the call returned or raised
    count,      \* per call: getUsers' count argument
    invoked,    \* history, per call: number of invocations of operation()
    waits,      \* history, per call: the delays passed to RetryHelper.delay
    thrown,     \* history, per call: what each failed attempt threw
    fetches,    \* history, per call: for each fetch(url), the count in the url
                \* and the cache entry at that moment
    call,       \* history, per call: the function that was called
    cacheAtCall,\* history, per call: the cache entry when the call was made
    convPc,     \* per conversion: "idle", "geocoding" (awaiting getCoordinates),
                \* "weather" (awaiting getCurrentWeather), "done", "raised"
    user,       \* per conversion: the argument of convertUserToUserWeatherData
    validatedUser, \* per conversion: validateUser(user)
    converted,  \* per conversion: the {user, weather} returned, or the error raised
    geoCalls,   \* history, per conversion: the queries passed to getCoordinates
    weatherCalls, \* history, per conversion: the coordinates passed to getCurrentWeather
    failure,    \* history, per conversion: the stage that failed, or "none"
    geoResults, \* history, per conversion: what getCoordinates resolved with
    firstSettled, \* history: the conversion in flight that settled first (0: none)
    batchPc,    \* convertUsersToUserWeatherData: "idle", "awaiting" (Promise.all),
                \* "returned", "failed"
    batchUsers, \* the argument of convertUsersToUserWeatherData
    batchResults, \* what convertUsersToUserWeatherData returned or raised
    validating, \* the schema a validator is applied with: "none", "user",
                \* "users", "response"
    input,      \* the `data` argument of the validators
    outcome,    \* what the throwing validator returned or raised
    safeOutcome \* what the non-throwing validator returned

serviceVars == <<cache, count, fetches, cacheAtCall>>

retryVars == <<pc, op, opts, attempt, lastError, result, invoked, waits, thrown>>

convVars ==
    <<convPc, user, validatedUser, converted, geoCalls, weatherCalls, failure,
      geoResults, firstSettled, batchPc, batchUsers, batchResults>>

validatorVars == <<validating, input, outcome, safeOutcome>>

vars == <<build, call, retryVars, serviceVars, convVars, validatorVars>>

Builds == {"dist", "src"}

RetryOptions(maxAttempts, baseDelay, maxDelay) ==
    [maxAttempts |-> maxAttempts, baseDelay |-> baseDelay, maxDelay |-> maxDelay]

NoOptions == RetryOptions(0, 0, 0)

(***************************************************************************)
(* RetryHelper.retryApiCall                                                *)
(***************************************************************************)
Min(a, b) == IF a < b THEN a ELSE b

\* the exponent off by one: baseDelay * 2^attempt
BackoffDelayDoubled(o, k) == Min(o.baseDelay * 2 ^ k, o.maxDelay)

\* Math.min(baseDelay * Math.pow(2, attempt - 1), maxDelay)
BackoffDelay(o, k) == Min(o.baseDelay * 2 ^ (k - 1), o.maxDelay)

\* `let lastError: Error = new Error("Unknown error")`
UnknownError == Thrown("retryApiCall", 0, TRUE, "Error", <<"Unknown error">>)

\* the loop gives up one attempt early
RetryCatchGivesUpEarly(p, x) ==
    LET k == attempt[p]
        e == AsError(x, "retryApiCall", k)
    IN  /\ lastError' = [lastError EXCEPT ![p] = e]
        /\ thrown' = [thrown EXCEPT ![p] = Append(@, x)]
        /\ IF k >= opts[p].maxAttempts - 1
           THEN /\ pc' = [pc EXCEPT ![p] = "failed"]
                /\ result' = [result EXCEPT ![p] = Raised(e)]
                /\ waits' = waits
           ELSE /\ pc' = [pc EXCEPT ![p] = "sleeping"]
                /\ result' = result
                /\ waits' = [waits EXCEPT ![p] = Append(@, BackoffDelay(opts[p], k))]
        /\ UNCHANGED <<op, opts, attempt, invoked>>

\* an error made by the users operation's validation branch is not retried
RetryCatchValidationFatal(p, x) ==
    LET k == attempt[p]
        e == AsError(x, "retryApiCall", k)
    IN  /\ lastError' = [lastError EXCEPT ![p] = e]
        /\ thrown' = [thrown EXCEPT ![p] = Append(@, x)]
        /\ IF k = opts[p].maxAttempts \/ x.obj.site = "fetchFreshUsers"
           THEN /\ pc' = [pc EXCEPT ![p] = "failed"]
                /\ result' = [result EXCEPT ![p] = Raised(e)]
                /\ waits' = waits
           ELSE /\ pc' = [pc EXCEPT ![p] = "sleeping"]
                /\ result' = result
                /\ waits' = [waits EXCEPT ![p] = Append(@, BackoffDelay(opts[p], k))]
        /\ UNCHANGED <<op, opts, attempt, invoked>>

\* What the catch block of retryApiCall does with the value x thrown by
\* attempt k: the final attempt rethrows, any other one schedules a delay.
RetryCatch(p, x) ==
    LET k == attempt[p]
        e == AsError(x, "retryApiCall", k)
    IN  /\ lastError' = [lastError EXCEPT ![p] = e]
        /\ thrown' = [thrown EXCEPT ![p] = Append(@, x)]
        /\ IF k = opts[p].maxAttempts
           THEN /\ pc' = [pc EXCEPT ![p] = "failed"]
                /\ result' = [result EXCEPT ![p] = Raised(e)]
                /\ waits' = waits
           ELSE /\ pc' = [pc EXCEPT ![p] = "sleeping"]
                /\ result' = result
                /\ waits' = [waits EXCEPT ![p] = Append(@, BackoffDelay(opts[p], k))]
        /\ UNCHANGED <<op, opts, attempt, invoked>>

\* `return await operation()` when the operation fulfils with v
RetryReturn(p, v) ==
    /\ pc' = [pc EXCEPT ![p] = "returned"]
    /\ result' = [result EXCEPT ![p] = Returned(v)]
    /\ UNCHANGED <<op, opts, attempt, lastError, invoked, waits, thrown>>

\* a do-while loop: the first attempt runs whatever maxAttempts is
RetryEnterAlwaysRuns(p, operation, o) ==
    /\ op' = [op EXCEPT ![p] = operation]
    /\ opts' = [opts EXCEPT ![p] = o]
    /\ lastError' = [lastError EXCEPT ![p] = UnknownError]
    /\ attempt' = [attempt EXCEPT ![p] = 1]
    /\ waits' = [waits EXCEPT ![p] = <<>>]
    /\ thrown' = [thrown EXCEPT ![p] = <<>>]
    /\ pc' = [pc EXCEPT ![p] = "running"]
    /\ invoked' = [invoked EXCEPT ![p] = 1]
    /\ result' = [result EXCEPT ![p] = NoResult]

\* Entry of retryApiCall up to its first suspension: with maxAttempts < 1 the
\* loop body never runs and the trailing `throw lastError` is reached.
RetryEnter(p, operation, o) ==
    /\ op' = [op EXCEPT ![p] = operation]
    /\ opts' = [opts EXCEPT ![p] = o]
    /\ lastError' = [lastError EXCEPT ![p] = UnknownError]
    /\ attempt' = [attempt EXCEPT ![p] = 1]
    /\ waits' = [waits EXCEPT ![p] = <<>>]
    /\ thrown' = [thrown EXCEPT ![p] = <<>>]
    /\ IF 1 <= o.maxAttempts
       THEN /\ pc' = [pc EXCEPT ![p] = "running"]
            /\ invoked' = [invoked EXCEPT ![p] = 1]
            /\ result' = [result EXCEPT ![p] = NoResult]
       ELSE /\ pc' = [pc EXCEPT ![p] = "failed"]
            /\ invoked' = [invoked EXCEPT ![p] = 0]
            /\ result' = [result EXCEPT ![p] = Raised(UnknownError)]

\* The values and failures of the arbitrary operation of a direct call
OpValues == {<<>>, <<UserA>>}
OpFailures(k) ==
    {Thrown("operation", k, TRUE, "Error", <<"boom">>),
     Thrown("operation", k, TRUE, "TypeError", <<"Failed to fetch">>),
     Thrown("operation", k, FALSE, "string", <<"oops">>)}

OptionChoices ==
    {RetryOptions(m, d[1], d[2]) :
        m \in (-1)..MaxAttemptsBound, d \in {<<100, 5000>>, <<1000, 5000>>, <<1000, 1500>>}}

\* A direct call retryApiCall(operation, options, name)
RetryApiCall(p, o) ==
    /\ pc[p] = "idle"
    /\ RetryEnter(p, "generic", o)
    /\ call' = [call EXCEPT ![p] = "retryApiCall"]
    /\ UNCHANGED <<build, validatorVars, serviceVars, convVars>>

OperationFulfils(p, v) ==
    /\ pc[p] = "running" /\ op[p] = "generic"
    /\ RetryReturn(p, v)
    /\ UNCHANGED <<build, validatorVars, call, serviceVars, convVars>>

OperationRejects(p, x) ==
    /\ pc[p] = "running" /\ op[p] = "generic"
    /\ RetryCatch(p, x)
    /\ UNCHANGED <<build, validatorVars, call, serviceVars, convVars>>

(***************************************************************************)
(* CacheManager and APP_CONSTANTS                                          *)
(***************************************************************************)
\* CacheManager.getItem(CACHE_KEYS.USERS): the stored value, or null
CacheGetItem(c) == c
\* CacheManager.setItem(CACHE_KEYS.USERS, users)
CacheSetItem(c, users) == List(users)
\* CacheManager.removeItem(CACHE_KEYS.USERS)
CacheRemoveItem(c) == Absent

DEFAULT_RETRY_ATTEMPTS == 3
DEFAULT_RETRY_DELAY == 1000
UsersMaxDelay == 5000

UsersRetryOptions ==
    RetryOptions(DEFAULT_RETRY_ATTEMPTS, DEFAULT_RETRY_DELAY, UsersMaxDelay)

(***************************************************************************)
(* UserService                                                             *)
(***************************************************************************)
\* UserValidator.safeValidateUsers
safeValidateUsers(x) ==
    LET r == UsersArraySchema(x)
    IN  [success |-> r.ok, data |-> r.data,
         error |-> IF r.ok THEN <<>> ELSE <<"Users validation failed: ">> \o r.issues]

\* the cached list handed back whole
SliceNothing(l, n) == l

\* cachedUsers.slice(0, count), count >= 0
Slice(l, n) == SubSeq(l, 1, Min(n, Len(l)))

\* dist build: the cached value goes through the Zod schema
getCachedUsersDist(c) ==
    LET rawCached == CacheGetItem(c)
        validationResult == safeValidateUsers(rawCached)
    IN  IF rawCached.t = "absent" THEN [ret |-> Absent, cache |-> c]
        ELSE IF ~validationResult.success
        THEN [ret |-> Absent, cache |-> CacheRemoveItem(c)]
        ELSE [ret |-> List(validationResult.data), cache |-> c]

\* TypeScript sources: only the first element is looked at, and only for
\* the presence of name and location; reading a property of a null first
\* element throws, which the catch block turns into removal.
getCachedUsersSrc(c) ==
    LET rawCached == CacheGetItem(c)
    IN  IF rawCached.t # "list" THEN [ret |-> Absent, cache |-> c]
        ELSE IF Len(rawCached.v) > 0 /\ ~rawCached.v[1].obj
        THEN [ret |-> Absent, cache |-> CacheRemoveItem(c)]
        ELSE IF Len(rawCached.v) > 0 /\ rawCached.v[1].hasName
                /\ rawCached.v[1].hasLocation
        THEN [ret |-> rawCached, cache |-> c]
        ELSE [ret |-> Absent, cache |-> CacheRemoveItem(c)]

\* UserService.getCachedUsers as a function of the cache entry: the value
\* returned (Absent stands for null) and the cache entry afterwards
getCachedUsers(b, c) ==
    IF b = "dist" THEN getCachedUsersDist(c) ELSE getCachedUsersSrc(c)

\* the stale entry is left in place while fetching
fetchFreshUsersKeepsCache(p, n) ==
    /\ cache' = cache
    /\ count' = [count EXCEPT ![p] = n]
    /\ RetryEnter(p, "users", UsersRetryOptions)
    /\ fetches' = [fetches EXCEPT ![p] =
                      IF pc'[p] = "running"
                      THEN <<[count |-> n, cache |-> cache']>> ELSE <<>>]

\* UserService.fetchFreshUsers(n) up to its first suspension
fetchFreshUsers(p, n) ==
    /\ cache' = CacheRemoveItem(cache)
    /\ count' = [count EXCEPT ![p] = n]
    /\ RetryEnter(p, "users", UsersRetryOptions)
    /\ fetches' = [fetches EXCEPT ![p] =
                      IF pc'[p] = "running"
                      THEN <<[count |-> n, cache |-> cache']>> ELSE <<>>]

\* A direct call UserService.fetchFreshUsers(n)
FetchFreshUsers(p, n) ==
    /\ pc[p] = "idle"
    /\ fetchFreshUsers(p, n)
    /\ call' = [call EXCEPT ![p] = "fetchFreshUsers"]
    /\ cacheAtCall' = [cacheAtCall EXCEPT ![p] = cache]
    /\ UNCHANGED <<build, validatorVars, convVars>>

\* A call UserService.getCachedUsers()
GetCachedUsers(p) ==
    LET r == getCachedUsers(build, cache)
    IN  /\ pc[p] = "idle"
        /\ cache' = r.cache
        /\ pc' = [pc EXCEPT ![p] = "returned"]
        /\ result' = [result EXCEPT ![p] = Returned(r.ret)]
        /\ call' = [call EXCEPT ![p] = "getCachedUsers"]
        /\ cacheAtCall' = [cacheAtCall EXCEPT ![p] = cache]
        /\ UNCHANGED <<build, validatorVars, op, opts, attempt, lastError, count, invoked, waits,
                       thrown, fetches, convVars>>

\* A call UserService.getUsers(n), up to its return or first suspension
GetUsers(p, n) ==
    LET r == getCachedUsers(build, cache)
        cachedUsers == r.ret
    IN  /\ pc[p] = "idle"
        /\ IF cachedUsers.t = "list" /\ Len(cachedUsers.v) >= n
           THEN /\ cache' = r.cache
                /\ count' = [count EXCEPT ![p] = n]
                /\ pc' = [pc EXCEPT ![p] = "returned"]
                /\ result' = [result EXCEPT ![p] =
                                 Returned(List(Slice(cachedUsers.v, n)))]
                /\ UNCHANGED <<op, opts, attempt, lastError, invoked, waits, thrown,
                               fetches>>
           ELSE fetchFreshUsers(p, n)
        /\ call' = [call EXCEPT ![p] = "getUsers"]
        /\ cacheAtCall' = [cacheAtCall EXCEPT ![p] = cache]
        /\ UNCHANGED <<build, validatorVars, convVars>>

\* What the user-listing endpoint may answer
ApiUsers == {UserA, UserBlank, UserNoCountry}

RECURSIVE ListsOver(_, _)
ListsOver(S, n) ==
    IF n = 0 THEN {<<>>}
    ELSE LET shorter == ListsOver(S, n - 1)
         IN  shorter \cup {Append(l, u) : l \in {x \in shorter : Len(x) = n - 1}, u \in S}

ApiResponses ==
    {[results |-> NotAList]} \cup {[results |-> List(l)] : l \in ListsOver(ApiUsers, MaxListLen)}

\* APIHelper.fetchData: what a request answered with a non-success status
\* throws during attempt k.  It is an Error instance, so fetchData's catch
\* block rethrows it as it is.
FetchFailures(k) ==
    {Thrown("fetchData", k, TRUE, "Error",
            <<"Failed to fetch users from API", ": ", "HTTP 500">>)}

\* The operation passed to retryApiCall, after fetchData threw x
FetchRejects(p, x) ==
    /\ pc[p] = "running" /\ op[p] = "users"
    /\ RetryCatch(p, x)
    /\ UNCHANGED <<build, validatorVars, call, serviceVars, convVars>>

\* the validated list cut down to the requested count
FetchFulfilsTruncates(p, rawData) ==
    LET validated == UserApiResponseSchema(rawData)
        validatedUsers == Slice(validated.data.results, count[p])
    IN  /\ pc[p] = "running" /\ op[p] = "users"
        /\ IF validated.ok
           THEN /\ cache' = CacheSetItem(cache, validatedUsers)
                /\ RetryReturn(p, List(validatedUsers))
           ELSE /\ cache' = cache
                /\ RetryCatch(p, Thrown("fetchFreshUsers", attempt[p], TRUE, "Error",
                                        <<"Invalid user data from API: ">>
                                            \o validated.issues))
        /\ UNCHANGED <<build, validatorVars, call, count, fetches, cacheAtCall, convVars>>

\* only the first validated user reaches the cache
FetchFulfilsCachesFirst(p, rawData) ==
    LET validated == UserApiResponseSchema(rawData)
        validatedUsers == validated.data.results
    IN  /\ pc[p] = "running" /\ op[p] = "users"
        /\ IF validated.ok
           THEN /\ cache' = CacheSetItem(cache, Slice(validatedUsers, 1))
                /\ RetryReturn(p, List(validatedUsers))
           ELSE /\ cache' = cache
                /\ RetryCatch(p, Thrown("fetchFreshUsers", attempt[p], TRUE, "Error",
                                        <<"Invalid user data from API: ">>
                                            \o validated.issues))
        /\ UNCHANGED <<build, validatorVars, call, count, fetches, cacheAtCall, convVars>>

\* the ZodError of a rejected response thrown as it is
FetchFulfilsRethrowsZodError(p, rawData) ==
    LET validated == UserApiResponseSchema(rawData)
        validatedUsers == validated.data.results
    IN  /\ pc[p] = "running" /\ op[p] = "users"
        /\ IF validated.ok
           THEN /\ cache' = CacheSetItem(cache, validatedUsers)
                /\ RetryReturn(p, List(validatedUsers))
           ELSE /\ cache' = cache
                /\ RetryCatch(p, Thrown("zod", attempt[p], TRUE, "ZodError",
                                        validated.issues))
        /\ UNCHANGED <<build, validatorVars, call, count, fetches, cacheAtCall, convVars>>

\* the raw results cached before they are validated
FetchFulfilsCachesRaw(p, rawData) ==
    LET validated == UserApiResponseSchema(rawData)
        validatedUsers == validated.data.results
    IN  /\ pc[p] = "running" /\ op[p] = "users"
        /\ cache' = IF rawData.results.t = "list"
                    THEN CacheSetItem(cache, rawData.results.v) ELSE cache
        /\ IF validated.ok
           THEN RetryReturn(p, List(validatedUsers))
           ELSE RetryCatch(p, Thrown("fetchFreshUsers", attempt[p], TRUE, "Error",
                                     <<"Invalid user data from API: ">>
                                         \o validated.issues))
        /\ UNCHANGED <<build, validatorVars, call, count, fetches, cacheAtCall, convVars>>

\* The operation passed to retryApiCall, after fetchData returned rawData
FetchFulfils(p, rawData) ==
    LET validated == UserApiResponseSchema(rawData)
        validatedUsers == validated.data.results
    IN  /\ pc[p] = "running" /\ op[p] = "users"
        /\ IF validated.ok
           THEN /\ cache' = CacheSetItem(cache, validatedUsers)
                /\ RetryReturn(p, List(validatedUsers))
           ELSE /\ cache' = cache
                /\ RetryCatch(p, Thrown("fetchFreshUsers", attempt[p], TRUE, "Error",
                                        <<"Invalid user data from API: ">>
                                            \o validated.issues))
        /\ UNCHANGED <<build, validatorVars, call, count, fetches, cacheAtCall, convVars>>

\* the loop repeats the attempt without counting it
DelayElapsesSameAttempt(p) ==
    /\ pc[p] = "sleeping"
    /\ attempt' = attempt
    /\ invoked' = [invoked EXCEPT ![p] = @ + 1]
    /\ pc' = [pc EXCEPT ![p] = "running"]
    /\ fetches' = [fetches EXCEPT ![p] =
                      IF op[p] = "users"
                      THEN Append(@, [count |-> count[p], cache |-> cache]) ELSE @]
    /\ UNCHANGED <<build, validatorVars, call, cache, op, opts, lastError, result, count, waits,
                   thrown, cacheAtCall, convVars>>

\* RetryHelper.delay resolves: the loop increments attempt and invokes the
\* operation again, which for the users operation calls fetch at once.
DelayElapses(p) ==
    /\ pc[p] = "sleeping"
    /\ attempt' = [attempt EXCEPT ![p] = @ + 1]
    /\ invoked' = [invoked EXCEPT ![p] = @ + 1]
    /\ pc' = [pc EXCEPT ![p] = "running"]
    /\ fetches' = [fetches EXCEPT ![p] =
                      IF op[p] = "users"
                      THEN Append(@, [count |-> count[p], cache |-> cache]) ELSE @]
    /\ UNCHANGED <<build, validatorVars, call, cache, op, opts, lastError, result, count, waits,
                   thrown, cacheAtCall, convVars>>

\* The caller takes the outcome; the call slot is free again
Complete(p) ==
    /\ pc[p] \in {"returned", "failed"}
    /\ pc' = [pc EXCEPT ![p] = "idle"]
    /\ op' = [op EXCEPT ![p] = "none"]
    /\ opts' = [opts EXCEPT ![p] = NoOptions]
    /\ attempt' = [attempt EXCEPT ![p] = 0]
    /\ lastError' = [lastError EXCEPT ![p] = NoError]
    /\ result' = [result EXCEPT ![p] = NoResult]
    /\ count' = [count EXCEPT ![p] = 0]
    /\ invoked' = [invoked EXCEPT ![p] = 0]
    /\ waits' = [waits EXCEPT ![p] = <<>>]
    /\ thrown' = [thrown EXCEPT ![p] = <<>>]
    /\ fetches' = [fetches EXCEPT ![p] = <<>>]
    /\ call' = [call EXCEPT ![p] = "none"]
    /\ cacheAtCall' = [cacheAtCall EXCEPT ![p] = Absent]
    /\ UNCHANGED <<build, validatorVars, cache, convVars>>

(***************************************************************************)
(* GeocodingService and WeatherService                                     *)
(***************************************************************************)
\* GeocodingService.getCoordinates resolves to one of these
Coordinates == {[lat |-> 0, lng |-> 0], [lat |-> 51, lng |-> 1]}

\* WeatherService.getCurrentWeather resolves to a reading, live or stale
WeatherData(temperature, condition, humidity, stale) ==
    [t |-> "data", temperature |-> temperature, condition |-> condition,
     humidity |-> humidity, stale |-> stale]
NullWeather ==
    [t |-> "null", temperature |-> 0, condition |-> "", humidity |-> 0, stale |-> FALSE]
WeatherReadings == {WeatherData(20, "Sunny", 50, FALSE), WeatherData(5, "Rain", 90, TRUE)}

(***************************************************************************)
(* UserWeatherConverter                                                    *)
(***************************************************************************)
MaxBatch == 3           \* longest list passed to convertUsersToUserWeatherData
Slots == 1..MaxBatch

\* `${user.location.city}, ${user.location.country}`
getLocationQuery(u) == u.city.v \o <<",", " ">> \o u.country.v

NoConversion == [t |-> "none", user |-> NullUser, weather |-> NullWeather, e |-> NoError]
Converted(u, w) == [t |-> "value", user |-> u, weather |-> w, e |-> NoError]
ConvRaised(e) == [t |-> "error", user |-> NullUser, weather |-> NullWeather, e |-> e]

ZodError(issues) == Thrown("zod", 0, TRUE, "ZodError", issues)

\* UserUtils.getFullName / getLocationQuery of the dist build validate
\* their argument again and throw the ZodError of a rejected one; the
\* free functions of the TypeScript sources only read the properties.
HelpersAccept(b, u) == b = "src" \/ UserSchema(u).ok

\* the error of a failed geocoding or weather call propagates
convertCatchRethrows(b, u, x) ==
    IF x.name = "ZodError" THEN Converted(u, NullWeather) ELSE ConvRaised(x)

\* the catch block hands back what the schema makes of the argument
convertCatchReturnsParsed(b, u, x) == Converted(UserSchema(u).data, NullWeather)

\* The catch block of convertUserToUserWeatherData(u) for the thrown value
\* x.  Both branches return the argument with weather null; the dist build
\* evaluates UserUtils.getFullName(user) for its log line before returning
\* from the second branch.
convertCatch(b, u, x) ==
    IF x.name = "ZodError" \/ HelpersAccept(b, u)
    THEN Converted(u, NullWeather)
    ELSE ConvRaised(ZodError(UserSchema(u).issues))

\* a conversion that ended in `c` at `stage` ("none": no failure)
Ended(u, v, stage, c) ==
    [convPc |-> IF c.t = "value" THEN "done" ELSE "raised",
     user |-> u, validatedUser |-> v, converted |-> c, geoCalls |-> <<>>,
     failure |-> stage]

\* convertUserToUserWeatherData(u) up to its return or first suspension, as
\* the state of the conversion
convertUserToUserWeatherData(b, u) ==
    LET parsed == UserSchema(u)
    IN  IF ~parsed.ok
        THEN Ended(u, NullUser, "validation", convertCatch(b, u, ZodError(parsed.issues)))
        ELSE IF ~HelpersAccept(b, parsed.data)
        THEN Ended(u, parsed.data, "validation",
                   convertCatch(b, u, ZodError(UserSchema(parsed.data).issues)))
        ELSE [convPc |-> "geocoding", user |-> u, validatedUser |-> parsed.data,
              converted |-> NoConversion,
              geoCalls |-> <<getLocationQuery(parsed.data)>>, failure |-> "none"]

\* The conversions of slots 1..n start as s[1], ..., s[n], in that order
Launch(n, s) ==
    LET started(i) == i \in 1..n
    IN  /\ convPc' = [i \in Slots |-> IF started(i) THEN s[i].convPc ELSE convPc[i]]
        /\ user' = [i \in Slots |-> IF started(i) THEN s[i].user ELSE user[i]]
        /\ validatedUser' =
              [i \in Slots |-> IF started(i) THEN s[i].validatedUser ELSE validatedUser[i]]
        /\ converted' = [i \in Slots |-> IF started(i) THEN s[i].converted ELSE converted[i]]
        /\ geoCalls' = [i \in Slots |-> IF started(i) THEN s[i].geoCalls ELSE geoCalls[i]]
        /\ failure' = [i \in Slots |-> IF started(i) THEN s[i].failure ELSE failure[i]]
        /\ weatherCalls' = [i \in Slots |-> IF started(i) THEN <<>> ELSE weatherCalls[i]]
        /\ geoResults' = [i \in Slots |-> IF started(i) THEN <<>> ELSE geoResults[i]]
        /\ firstSettled' =
              LET now == {i \in 1..n : s[i].convPc # "geocoding"}
              IN  IF firstSettled = 0 /\ now # {}
                  THEN CHOOSE i \in now : \A j \in now : i <= j
                  ELSE firstSettled

\* A conversion in flight ends in `c` at `stage`
Settle(i, stage, c) ==
    /\ convPc' = [convPc EXCEPT ![i] = IF c.t = "value" THEN "done" ELSE "raised"]
    /\ converted' = [converted EXCEPT ![i] = c]
    /\ failure' = [failure EXCEPT ![i] = stage]
    /\ firstSettled' = IF firstSettled = 0 THEN i ELSE firstSettled

\* A direct call convertUserToUserWeatherData(u), running in slot i
ConvertUser(i, u) ==
    LET s == convertUserToUserWeatherData(build, u)
    IN  /\ convPc[i] = "idle"
        /\ convPc' = [convPc EXCEPT ![i] = s.convPc]
        /\ user' = [user EXCEPT ![i] = s.user]
        /\ validatedUser' = [validatedUser EXCEPT ![i] = s.validatedUser]
        /\ converted' = [converted EXCEPT ![i] = s.converted]
        /\ geoCalls' = [geoCalls EXCEPT ![i] = s.geoCalls]
        /\ failure' = [failure EXCEPT ![i] = s.failure]
        /\ weatherCalls' = [weatherCalls EXCEPT ![i] = <<>>]
        /\ geoResults' = [geoResults EXCEPT ![i] = <<>>]
        /\ firstSettled' =
              IF s.convPc # "geocoding" /\ firstSettled = 0 THEN i ELSE firstSettled
        /\ UNCHANGED <<build, validatorVars, call, retryVars, serviceVars, batchPc, batchUsers, batchResults>>

\* latitude and longitude handed over in the wrong order
GeocodingFulfilsSwapped(i, c) ==
    /\ convPc[i] = "geocoding"
    /\ convPc' = [convPc EXCEPT ![i] = "weather"]
    /\ geoResults' = [geoResults EXCEPT ![i] = Append(@, c)]
    /\ weatherCalls' = [weatherCalls EXCEPT ![i] = Append(@, [lat |-> c.lng, lng |-> c.lat])]
    /\ UNCHANGED <<build, validatorVars, call, retryVars, serviceVars, user, validatedUser,
                   converted, geoCalls, failure, firstSettled, batchPc, batchUsers, batchResults>>

\* getCoordinates resolved with c: getCurrentWeather(c.lat, c.lng) is called
GeocodingFulfils(i, c) ==
    /\ convPc[i] = "geocoding"
    /\ convPc' = [convPc EXCEPT ![i] = "weather"]
    /\ geoResults' = [geoResults EXCEPT ![i] = Append(@, c)]
    /\ weatherCalls' = [weatherCalls EXCEPT ![i] = Append(@, [lat |-> c.lat, lng |-> c.lng])]
    /\ UNCHANGED <<build, validatorVars, call, retryVars, serviceVars, user, validatedUser,
                   converted, geoCalls, failure, firstSettled, batchPc, batchUsers, batchResults>>

\* getCoordinates rejected with x
GeocodingRejects(i, x) ==
    /\ convPc[i] = "geocoding"
    /\ Settle(i, "geocoding", convertCatch(build, user[i], x))
    /\ UNCHANGED <<build, validatorVars, call, retryVars, serviceVars, user, validatedUser,
                   geoCalls, weatherCalls, geoResults, batchPc, batchUsers, batchResults>>

\* the reading copied without its stale flag
WeatherFulfilsDropsStale(i, w) ==
    /\ convPc[i] = "weather"
    /\ Settle(i, "none", Converted(validatedUser[i], [w EXCEPT !.stale = FALSE]))
    /\ UNCHANGED <<build, validatorVars, call, retryVars, serviceVars, user, validatedUser,
                   geoCalls, weatherCalls, geoResults, batchPc, batchUsers, batchResults>>

\* getCurrentWeather resolved with w
WeatherFulfils(i, w) ==
    /\ convPc[i] = "weather"
    /\ Settle(i, "none", Converted(validatedUser[i], w))
    /\ UNCHANGED <<build, validatorVars, call, retryVars, serviceVars, user, validatedUser,
                   geoCalls, weatherCalls, geoResults, batchPc, batchUsers, batchResults>>

\* getCurrentWeather rejected with x
WeatherRejects(i, x) ==
    /\ convPc[i] = "weather"
    /\ Settle(i, "weather", convertCatch(build, user[i], x))
    /\ UNCHANGED <<build, validatorVars, call, retryVars, serviceVars, user, validatedUser,
                   geoCalls, weatherCalls, geoResults, batchPc, batchUsers, batchResults>>

\* The caller takes the outcome of the conversion
ConvComplete(i) ==
    /\ convPc[i] \in {"done", "raised"}
    /\ convPc' = [convPc EXCEPT ![i] = "idle"]
    /\ user' = [user EXCEPT ![i] = NullUser]
    /\ validatedUser' = [validatedUser EXCEPT ![i] = NullUser]
    /\ converted' = [converted EXCEPT ![i] = NoConversion]
    /\ geoCalls' = [geoCalls EXCEPT ![i] = <<>>]
    /\ weatherCalls' = [weatherCalls EXCEPT ![i] = <<>>]
    /\ geoResults' = [geoResults EXCEPT ![i] = <<>>]
    /\ failure' = [failure EXCEPT ![i] = "none"]
    /\ firstSettled' = IF firstSettled = i THEN 0 ELSE firstSettled
    /\ UNCHANGED <<build, validatorVars, call, retryVars, serviceVars, batchPc, batchUsers, batchResults>>

\* What convertUsersToUserWeatherData returned or raised
NoBatchResult == [t |-> "none", v |-> <<>>, e |-> NoError]
BatchReturned(rs) == [t |-> "value", v |-> rs, e |-> NoError]
BatchRaised(e) == [t |-> "error", v |-> <<>>, e |-> e]

\* `throw new Error(`Invalid users array: ${error.message}`)`
InvalidUsersArray(issues) ==
    Thrown("convertUsersToUserWeatherData", 0, TRUE, "Error",
           <<"Invalid users array: ">> \o issues)

\* the results with weather first, then those without
promiseAllSuccessfulFirst(n, conv) ==
    LET all == [k \in 1..n |-> conv[k]]
    IN  SelectSeq(all, LAMBDA r : r.weather.t # "null")
            \o SelectSeq(all, LAMBDA r : r.weather.t = "null")

\* Promise.all over the n conversions, none of which rejected: the value
\* of the k-th promise at index k, whatever the order they settled in
promiseAll(n, conv) == [k \in 1..n |-> conv[k]]

\* convertUsersToUserWeatherData(us) up to its failure or its suspension at
\* Promise.all: the list is validated, then every element's conversion is
\* started, in order, within the same turn.
ConvertUsers(us) ==
    LET parsed == UsersArraySchema(us)
        validatedUsers == parsed.data
        n == Len(validatedUsers)
    IN  /\ batchPc = "idle"
        /\ \A i \in Slots : convPc[i] = "idle"
        /\ batchUsers' = us
        /\ IF ~parsed.ok
           THEN /\ batchPc' = "failed"
                /\ batchResults' = BatchRaised(InvalidUsersArray(parsed.issues))
                /\ UNCHANGED <<convPc, user, validatedUser, converted, geoCalls,
                               weatherCalls, failure, geoResults, firstSettled>>
           ELSE /\ batchPc' = "awaiting"
                /\ batchResults' = NoBatchResult
                /\ Launch(n, [k \in 1..n |->
                                 convertUserToUserWeatherData(build, validatedUsers[k])])
        /\ UNCHANGED <<build, validatorVars, call, retryVars, serviceVars>>

\* the batch fails as soon as one result has no weather
BatchSettlesNeedsWeather ==
    LET n == Len(UsersArraySchema(batchUsers).data)
        bad == {k \in 1..n : convPc[k] = "done" /\ converted[k].weather.t = "null"}
    IN  /\ batchPc = "awaiting"
        /\ bad # {} \/ \A k \in 1..n : convPc[k] = "done"
        /\ IF bad # {}
           THEN /\ batchPc' = "failed"
                /\ batchResults' = BatchRaised(Thrown("service", 0, TRUE, "Error",
                                                      <<"request failed">>))
           ELSE /\ batchPc' = "returned"
                /\ batchResults' =
                      BatchReturned(promiseAll(n, converted))
        /\ UNCHANGED <<build, validatorVars, call, retryVars, serviceVars, convPc, user,
                       validatedUser, converted, geoCalls, weatherCalls, failure,
                       geoResults, firstSettled, batchUsers>>

\* Promise.all settles: it rejects with the reason of a conversion that
\* raised, and the catch block rethrows it (a ZodError as a new Error); it
\* resolves once every conversion has returned, and the results are
\* returned.
BatchSettles ==
    LET n == Len(UsersArraySchema(batchUsers).data)
        raised == {k \in 1..n : convPc[k] = "raised"}
    IN  /\ batchPc = "awaiting"
        /\ raised # {} \/ \A k \in 1..n : convPc[k] = "done"
        /\ IF raised # {}
           THEN \E k \in raised :
                    LET e == converted[k].e
                    IN  /\ batchPc' = "failed"
                        /\ batchResults' =
                              BatchRaised(IF e.name = "ZodError"
                                          THEN InvalidUsersArray(e.message) ELSE e)
           ELSE /\ batchPc' = "returned"
                /\ batchResults' =
                      BatchReturned(promiseAll(n, converted))
        /\ UNCHANGED <<build, validatorVars, call, retryVars, serviceVars, convPc, user,
                       validatedUser, converted, geoCalls, weatherCalls, failure,
                       geoResults, firstSettled, batchUsers>>

\* The caller takes the outcome of the batch
BatchComplete ==
    /\ batchPc \in {"returned", "failed"}
    /\ \A i \in Slots : convPc[i] \in {"idle", "done", "raised"}
    /\ batchPc' = "idle"
    /\ batchUsers' = Absent
    /\ batchResults' = NoBatchResult
    /\ convPc' = [i \in Slots |-> "idle"]
    /\ user' = [i \in Slots |-> NullUser]
    /\ validatedUser' = [i \in Slots |-> NullUser]
    /\ converted' = [i \in Slots |-> NoConversion]
    /\ geoCalls' = [i \in Slots |-> <<>>]
    /\ weatherCalls' = [i \in Slots |-> <<>>]
    /\ geoResults' = [i \in Slots |-> <<>>]
    /\ failure' = [i \in Slots |-> "none"]
    /\ firstSettled' = 0
    /\ UNCHANGED <<build, validatorVars, call, retryVars, serviceVars>>

\* What the geocoding and weather clients may reject with
ServiceFailures ==
    {Thrown("service", 0, TRUE, "Error", <<"request failed">>),
     ZodError(<<"response">>)}

\* What callers may pass to the converter
ConvInputs == {UserA, UserPadded, UserBlank, UserNoCountry, UserBadUrl, NullUser}

(***************************************************************************)
(* UserValidator                                                           *)
(***************************************************************************)
\* What a validator returned or raised; `nothing` stands for no value
NoOutcome == [t |-> "none", v |-> <<>>, e |-> NoError]
Parsed(r, nothing) ==
    IF r.ok THEN [t |-> "value", v |-> r.data, e |-> NoError]
    ELSE [t |-> "error", v |-> nothing, e |-> ZodError(r.issues)]

\* UserSchema.parse(data)
validateUser(data) == Parsed(UserSchema(data), NullUser)
\* UsersArraySchema.parse(data)
validateUsers(data) == Parsed(UsersArraySchema(data), <<>>)
\* UserApiResponseSchema.parse(data)
validateApiResponse(data) == Parsed(UserApiResponseSchema(data), [results |-> <<>>])

\* {success, data, error} of the non-throwing validators; NullUser and <<>>
\* stand for a null data, <<>> for a null error
NoSafeOutcome == [success |-> FALSE, data |-> <<>>, error |-> <<"none">>]

\* the argument handed back as data, unparsed
safeValidateUserReturnsInput(data) ==
    LET parsed == UserSchema(data)
    IN  IF parsed.ok THEN [success |-> TRUE, data |-> data, error |-> <<>>]
        ELSE [success |-> FALSE, data |-> NullUser,
              error |-> <<"User validation failed: ">> \o parsed.issues]

\* UserValidator.safeValidateUser
safeValidateUser(data) ==
    LET parsed == UserSchema(data)
    IN  IF parsed.ok THEN [success |-> TRUE, data |-> parsed.data, error |-> <<>>]
        ELSE [success |-> FALSE, data |-> NullUser,
              error |-> <<"User validation failed: ">> \o parsed.issues]

\* A call UserValidator.validateUser(input)
ValidateUser ==
    /\ validating = "user" /\ outcome = NoOutcome
    /\ outcome' = validateUser(input)
    /\ UNCHANGED <<build, call, retryVars, serviceVars, convVars, validating, input,
                   safeOutcome>>

\* A call UserValidator.safeValidateUser(input)
SafeValidateUser ==
    /\ validating = "user" /\ safeOutcome = NoSafeOutcome
    /\ safeOutcome' = safeValidateUser(input)
    /\ UNCHANGED <<build, call, retryVars, serviceVars, convVars, validating, input,
                   outcome>>

\* A call UserValidator.validateUsers(input)
ValidateUsers ==
    /\ validating = "users" /\ outcome = NoOutcome
    /\ outcome' = validateUsers(input)
    /\ UNCHANGED <<build, call, retryVars, serviceVars, convVars, validating, input,
                   safeOutcome>>

\* A call UserValidator.safeValidateUsers(input)
SafeValidateUsers ==
    /\ validating = "users" /\ safeOutcome = NoSafeOutcome
    /\ safeOutcome' = safeValidateUsers(input)
    /\ UNCHANGED <<build, call, retryVars, serviceVars, convVars, validating, input,
                   outcome>>

\* A call UserValidator.validateApiResponse(input)
ValidateApiResponse ==
    /\ validating = "response" /\ outcome = NoOutcome
    /\ outcome' = validateApiResponse(input)
    /\ UNCHANGED <<build, call, retryVars, serviceVars, convVars, validating, input,
                   safeOutcome>>

(***************************************************************************)
(* Specifications                                                          *)
(***************************************************************************)

\* What the store may hold when the program starts: nothing, something
\* that is not a list, or any list of raw users.
CacheUsers == {UserA, UserPadded, UserNoCountry, NullUser}
InitialCaches ==
    {Absent, NotAList} \cup {List(l) : l \in ListsOver(CacheUsers, MaxListLen)}

IdleCalls ==
    /\ pc = [p \in Callers |-> "idle"]
    /\ op = [p \in Callers |-> "none"]
    /\ opts = [p \in Callers |-> NoOptions]
    /\ attempt = [p \in Callers |-> 0]
    /\ lastError = [p \in Callers |-> NoError]
    /\ result = [p \in Callers |-> NoResult]
    /\ count = [p \in Callers |-> 0]
    /\ invoked = [p \in Callers |-> 0]
    /\ waits = [p \in Callers |-> <<>>]
    /\ thrown = [p \in Callers |-> <<>>]
    /\ fetches = [p \in Callers |-> <<>>]
    /\ call = [p \in Callers |-> "none"]
    /\ cacheAtCall = [p \in Callers |-> Absent]

IdleConversions ==
    /\ convPc = [i \in Slots |-> "idle"]
    /\ user = [i \in Slots |-> NullUser]
    /\ validatedUser = [i \in Slots |-> NullUser]
    /\ converted = [i \in Slots |-> NoConversion]
    /\ geoCalls = [i \in Slots |-> <<>>]
    /\ weatherCalls = [i \in Slots |-> <<>>]
    /\ failure = [i \in Slots |-> "none"]
    /\ geoResults = [i \in Slots |-> <<>>]
    /\ firstSettled = 0
    /\ batchPc = "idle"
    /\ batchUsers = Absent
    /\ batchResults = NoBatchResult

IdleValidators ==
    /\ validating = "none"
    /\ input = Absent
    /\ outcome = NoOutcome
    /\ safeOutcome = NoSafeOutcome

\* Direct calls of retryApiCall with an arbitrary operation
InitRetry ==
    /\ build \in Builds
    /\ cache = Absent
    /\ IdleCalls
    /\ IdleConversions
    /\ IdleValidators

NextRetry ==
    \/ \E o \in OptionChoices : RetryApiCall(1, o)
    \/ \E v \in OpValues : OperationFulfils(1, List(v))
    \/ \E x \in OpFailures(attempt[1]) : OperationRejects(1, x)
    \/ DelayElapses(1)
    \/ Complete(1)

SpecRetry == InitRetry /\ [][NextRetry]_vars

\* One caller using UserService, one call after the other
Init ==
    /\ build \in Builds
    /\ cache \in InitialCaches
    /\ IdleCalls
    /\ IdleConversions
    /\ IdleValidators

Next ==
    \/ \E n \in 1..MaxCount : GetUsers(1, n)
    \/ \E n \in 1..MaxCount : FetchFreshUsers(1, n)
    \/ GetCachedUsers(1)
    \/ \E r \in ApiResponses : FetchFulfils(1, r)
    \/ \E x \in FetchFailures(attempt[1]) : FetchRejects(1, x)
    \/ DelayElapses(1)
    \/ Complete(1)

Spec == Init /\ [][Next]_vars

\* Two callers of getUsers, one call each, whose calls overlap: a call
\* suspends at its fetch and at each backoff delay, and the other caller's
\* steps may run in between.  The responses are one valid list of each length and one list
\* with a valid and an invalid user.
OverlapResponses ==
    {[results |-> List(<<UserA>>)],
     [results |-> List(<<UserBlank, UserA>>)],
     [results |-> List(<<UserA, UserNoCountry>>)]}

OverlapCaches == {Absent, List(<<UserA>>), List(<<UserNoCountry>>)}

InitOverlap ==
    /\ build \in Builds
    /\ cache \in OverlapCaches
    /\ IdleCalls
    /\ IdleConversions
    /\ IdleValidators

NextOverlap ==
    \/ \E p \in Callers, n \in {1, MaxCount} : GetUsers(p, n)
    \/ \E p \in Callers, r \in OverlapResponses : FetchFulfils(p, r)
    \/ \E p \in Callers : \E x \in FetchFailures(attempt[p]) : FetchRejects(p, x)
    \/ \E p \in Callers : DelayElapses(p)

SpecOverlap == InitOverlap /\ [][NextOverlap]_vars

\* Direct calls of convertUserToUserWeatherData, which may overlap: each
\* suspends at its geocoding and at its weather call
Overlapping == {1, 2}

InitConvert ==
    /\ build \in Builds
    /\ cache = Absent
    /\ IdleCalls
    /\ IdleConversions
    /\ IdleValidators

NextConvert ==
    \/ \E i \in Overlapping, u \in ConvInputs : ConvertUser(i, u)
    \/ \E i \in Overlapping, c \in Coordinates : GeocodingFulfils(i, c)
    \/ \E i \in Overlapping, x \in ServiceFailures : GeocodingRejects(i, x)
    \/ \E i \in Overlapping, w \in WeatherReadings : WeatherFulfils(i, w)
    \/ \E i \in Overlapping, x \in ServiceFailures : WeatherRejects(i, x)
    \/ \E i \in Overlapping : ConvComplete(i)

SpecConvert == InitConvert /\ [][NextConvert]_vars

\* Calls of convertUsersToUserWeatherData, which only the dist build has
BatchUsers == {UserA, UserPadded, UserBlank, UserNoCountry}
BatchInputs == {NotAList} \cup {List(l) : l \in ListsOver(BatchUsers, MaxBatch)}

\* what the two clients resolve with during a batch
BatchCoordinates == [lat |-> 51, lng |-> 1]
BatchReading == WeatherData(20, "Sunny", 50, FALSE)

InitBatch ==
    /\ build = "dist"
    /\ cache = Absent
    /\ IdleCalls
    /\ IdleConversions
    /\ IdleValidators

NextBatch ==
    \/ \E us \in BatchInputs : ConvertUsers(us)
    \/ \E i \in Slots : GeocodingFulfils(i, BatchCoordinates)
    \/ \E i \in Slots, x \in ServiceFailures : GeocodingRejects(i, x)
    \/ \E i \in Slots : WeatherFulfils(i, BatchReading)
    \/ \E i \in Slots, x \in ServiceFailures : WeatherRejects(i, x)
    \/ BatchSettles
    \/ BatchComplete

SpecBatch == InitBatch /\ [][NextBatch]_vars

\* One caller that awaits what it starts: a call of retryApiCall or of
\* getUsers, and once that has ended, or instead of it, a call of the batch
\* converter (compiled build).  Every pending
\* operation, fetch, delay, geocoding call and weather call settles in the
\* end, one way or the other; Promise.all settles once it can.
LiveOptions ==
    {RetryOptions(m, 100, 5000) : m \in {-1, 0, 1, MaxAttemptsBound}}

LiveResponses ==
    {[results |-> List(<<UserA>>)], [results |-> List(<<UserA, UserNoCountry>>)]}

LiveInputs ==
    {NotAList, List(<<UserA>>), List(<<UserA, UserBlank>>), List(<<UserNoCountry, UserA>>)}

InitLive ==
    /\ build \in Builds
    /\ cache \in {Absent, List(<<UserA>>)}
    /\ IdleCalls
    /\ IdleConversions
    /\ IdleValidators

NextLive ==
    \/ batchPc = "idle" /\ \E o \in LiveOptions : RetryApiCall(1, o)
    \/ batchPc = "idle" /\ \E n \in 1..MaxCount : GetUsers(1, n)
    \/ /\ pc[1] \in {"idle", "returned", "failed"} /\ build = "dist"
       /\ \E us \in LiveInputs : ConvertUsers(us)
    \/ \E v \in OpValues : OperationFulfils(1, List(v))
    \/ \E x \in OpFailures(attempt[1]) : OperationRejects(1, x)
    \/ \E r \in LiveResponses : FetchFulfils(1, r)
    \/ \E x \in FetchFailures(attempt[1]) : FetchRejects(1, x)
    \/ DelayElapses(1)
    \/ \E i \in Slots : GeocodingFulfils(i, BatchCoordinates)
    \/ \E i \in Slots, x \in ServiceFailures : GeocodingRejects(i, x)
    \/ \E i \in Slots : WeatherFulfils(i, BatchReading)
    \/ \E i \in Slots, x \in ServiceFailures : WeatherRejects(i, x)
    \/ BatchSettles

SpecLive ==
    /\ InitLive /\ [][NextLive]_vars
    /\ WF_vars(\/ \E v \in OpValues : OperationFulfils(1, List(v))
               \/ \E x \in OpFailures(attempt[1]) : OperationRejects(1, x))
    /\ WF_vars(\/ \E r \in LiveResponses : FetchFulfils(1, r)
               \/ \E x \in FetchFailures(attempt[1]) : FetchRejects(1, x))
    /\ WF_vars(DelayElapses(1))
    /\ \A i \in Slots :
          /\ WF_vars(\/ GeocodingFulfils(i, BatchCoordinates)
                     \/ \E x \in ServiceFailures : GeocodingRejects(i, x))
          /\ WF_vars(\/ WeatherFulfils(i, BatchReading)
                     \/ \E x \in ServiceFailures : WeatherRejects(i, x))
    /\ WF_vars(BatchSettles)

\* The validators applied to untrusted data.  Strings are spaces around an
\* empty or a one-letter core.
MaxPad == 1             \* most spaces on either side of a string
Spaces(n) == [k \in 1..n |-> " "]
Padded(core) == {Spaces(l) \o core \o Spaces(r) : l \in 0..MaxPad, r \in 0..MaxPad}
NotAString == [t |-> "number", v |-> <<>>]

FirstNames ==
    {Undefined, NotAString} \cup {Str(s) : s \in Padded(<<>>) \cup Padded(<<"a">>)}
OtherStrings == {Undefined, Str(<<>>), Str(<<" ">>), Str(<<"b">>), Str(<<"b", " ">>)}
PictureUrls == {Undefined, GoodUrl, Str(<<"x">>)}

UserInputs ==
    {NullUser, UserNoLocation}
        \cup {MkUser(f, l, c, k, p) : f \in FirstNames, l \in OtherStrings,
                                      c \in OtherStrings, k \in OtherStrings,
                                      p \in PictureUrls}

ListUsers == {UserA, UserPadded, UserBlank, UserNoCountry}
UsersInputs ==
    {Absent, NotAList} \cup {List(l) : l \in ListsOver(ListUsers, MaxListLen)}
ResponseInputs == {[results |-> x] : x \in UsersInputs}

InitValidate ==
    /\ build = "dist"
    /\ cache = Absent
    /\ IdleCalls
    /\ IdleConversions
    /\ outcome = NoOutcome
    /\ safeOutcome = NoSafeOutcome
    /\ \/ validating = "user" /\ input \in UserInputs
       \/ validating = "users" /\ input \in UsersInputs
       \/ validating = "response" /\ input \in ResponseInputs

NextValidate ==
    \/ ValidateUser
    \/ SafeValidateUser
    \/ ValidateUsers
    \/ SafeValidateUsers
    \/ ValidateApiResponse

SpecValidate == InitValidate /\ [][NextValidate]_vars

(***************************************************************************)
(* RetryHelper.retryApiCall: properties                                    *)
(***************************************************************************)
Retrying(p) == op[p] = "generic" /\ opts[p].maxAttempts >= 1

\* C1: retryApiCall with maxAttempts >= 1 invokes the operation at most
\* maxAttempts times; it returns the value of the first attempt that
\* fulfils, which is then the last invocation (every earlier one threw, and
\* nothing is invoked afterwards), and when it fails every one of exactly
\* maxAttempts invocations threw.
C1_AttemptsBounded ==
    /\ [](\A p \in Callers : Retrying(p) =>
            /\ invoked[p] <= opts[p].maxAttempts
            /\ invoked[p] = attempt[p]
            /\ pc[p] = "returned" => invoked[p] = Len(thrown[p]) + 1
            /\ pc[p] = "failed" =>
                  invoked[p] = opts[p].maxAttempts /\ Len(thrown[p]) = invoked[p])
    /\ [][\A p \in Callers :
            /\ (Retrying(p) /\ pc[p] = "returned" /\ pc'[p] = "returned")
                  => invoked'[p] = invoked[p]
            /\ \A v \in OpValues :
                  OperationFulfils(p, List(v)) =>
                      pc'[p] = "returned" /\ result'[p] = Returned(List(v))]_vars

C1_Witness ==
    /\ Retrying(1) /\ pc[1] = "returned"
    /\ opts[1].maxAttempts = 3 /\ invoked[1] = 2 /\ Len(thrown[1]) = 1

\* min(baseDelay * 2^(k-1), maxDelay), written out
ExpectedDelay(o, k) ==
    LET d == o.baseDelay * 2 ^ (k - 1)
    IN  IF d <= o.maxDelay THEN d ELSE o.maxDelay

\* C2: the k-th wait of a call is min(baseDelay * 2^(k-1), maxDelay) and
\* follows the failure of attempt k < maxAttempts (100 then 200 for
\* baseDelay = 100, maxDelay = 5000); there is one wait per failed attempt
\* except the final one, so none follows a fulfilled attempt or the failure
\* of attempt maxAttempts.
C2_BackoffDelays ==
    \A p \in Callers : Retrying(p) =>
        /\ \A k \in 1..Len(waits[p]) :
              /\ k < opts[p].maxAttempts
              /\ waits[p][k] = ExpectedDelay(opts[p], k)
              /\ (opts[p].baseDelay = 100 /\ opts[p].maxDelay = 5000 /\ k <= 2)
                    => waits[p][k] = 100 * k
        /\ Len(waits[p]) =
              IF pc[p] = "failed" THEN Len(thrown[p]) - 1 ELSE Len(thrown[p])
        /\ pc[p] = "returned" => Len(waits[p]) = invoked[p] - 1

C2_Witness ==
    /\ Retrying(1) /\ pc[1] = "returned" /\ invoked[1] = 3
    /\ waits[1] = <<100, 200>>

Exhausted(p) == Retrying(p) /\ pc[p] = "failed"

\* C3 as stated: when every attempt failed, the call raises the very value
\* the last attempt threw (same object, same kind).
C3_RaisesLastThrown ==
    \A p \in Callers : Exhausted(p) =>
        /\ result[p].t = "error"
        /\ result[p].e = thrown[p][opts[p].maxAttempts]

\* C3, amended: when every attempt failed, the call raises the value the
\* last attempt threw if that value is an Error, the same object unchanged;
\* a thrown value that is not an Error is raised as a new Error whose
\* message is String(value).  Either way it stems from the last attempt.
C3_RaisesLastError ==
    \A p \in Callers : Exhausted(p) =>
        LET x == thrown[p][opts[p].maxAttempts]
        IN  /\ result[p].t = "error"
            /\ result[p].e = lastError[p]
            /\ x.obj.n = opts[p].maxAttempts
            /\ x.isError => result[p].e = x
            /\ ~x.isError =>
                  /\ result[p].e.isError /\ result[p].e.name = "Error"
                  /\ result[p].e.message = StringOf(x)
                  /\ result[p].e.obj = [site |-> "retryApiCall", n |-> opts[p].maxAttempts]

C3_Witness ==
    /\ Exhausted(1) /\ opts[1].maxAttempts = 3
    /\ thrown[1][3].isError /\ thrown[1][3].name = "TypeError"
    /\ thrown[1][2].name = "Error"
    /\ result[1].e = thrown[1][3]

(***************************************************************************)
(* UserService: properties                                                 *)
(***************************************************************************)
\* The data model's User: every name and location string non-empty with no
\* surrounding whitespace, picture.large an absolute URL
IsTrimmedNonEmpty(f) ==
    /\ f.t = "string" /\ Len(f.v) >= 1
    /\ f.v[1] # " " /\ f.v[Len(f.v)] # " "

IsUser(u) ==
    /\ u.obj /\ u.hasName /\ u.hasLocation /\ u.hasPicture
    /\ IsTrimmedNonEmpty(u.first) /\ IsTrimmedNonEmpty(u.last)
    /\ IsTrimmedNonEmpty(u.city) /\ IsTrimmedNonEmpty(u.country)
    /\ u.large.t = "string" /\ IsUrl(u.large.v)

IsUserList(c) ==
    c.t = "list" /\ Len(c.v) >= 1 /\ \A i \in 1..Len(c.v) : IsUser(c.v[i])

\* the cached value is there and validateUsers rejects it
FailsValidateUsers(c) == c.t # "absent" /\ ~UsersArraySchema(c).ok

\* the lists that come out of validateApiResponse
ValidatedResults ==
    {List(UserApiResponseSchema(r).data.results) :
        r \in {x \in ApiResponses : UserApiResponseSchema(x).ok}}

C5_CacheMissRefetches ==
    \A p \in Callers :
        (/\ call[p] = "getUsers"
         /\ \/ cacheAtCall[p].t = "absent"
            \/ FailsValidateUsers(cacheAtCall[p])
            \/ Len(cacheAtCall[p].v) < count[p]) =>
            /\ op[p] = "users"
            /\ Len(fetches[p]) >= 1
            /\ \A k \in 1..Len(fetches[p]) :
                  fetches[p][k] = [count |-> count[p], cache |-> Absent]
            /\ pc[p] = "returned" =>
                  /\ result[p].t = "value"
                  /\ result[p].v \in ValidatedResults
                  /\ cache = result[p].v

\* C6: getCachedUsers called on a cached value that fails validateUsers
\* removes the entry and returns null, and getUsers called on such a value
\* goes on to fetch.
C6_CorruptCacheRemoved ==
    \A p \in Callers :
        /\ (call[p] = "getCachedUsers" /\ FailsValidateUsers(cacheAtCall[p])) =>
              /\ pc[p] = "returned"
              /\ result[p] = Returned(Absent)
              /\ cache = Absent
        /\ (call[p] = "getUsers" /\ FailsValidateUsers(cacheAtCall[p])) =>
              op[p] = "users" /\ Len(fetches[p]) >= 1

\* C7: a getUsers / fetchFreshUsers call that has exhausted its retries has
\* failed with an error and the cache entry is absent, whatever was cached
\* when the call was made.
C7_NoStaleFallback ==
    \A p \in Callers :
        (call[p] \in {"getUsers", "fetchFreshUsers"} /\ pc[p] = "failed") =>
            /\ result[p].t = "error"
            /\ Len(thrown[p]) = opts[p].maxAttempts
            /\ cache = Absent

C7_Witness ==
    /\ call[1] = "getUsers" /\ pc[1] = "failed"
    /\ IsUserList(cacheAtCall[1]) /\ count[1] > Len(cacheAtCall[1].v)
    /\ invoked[1] = DEFAULT_RETRY_ATTEMPTS
    /\ cache = Absent

\* C8: a step of the service changes the cache entry only by removing it
\* or by writing the validated results of a response that passed
\* validateApiResponse, which the call then returns; an attempt that fails
\* at fetch or at validation leaves the cache as it is; so while and after
\* a fetching call the entry is absent or such a validated list.
C8_OnlyValidatedWritten ==
    /\ [][\A p \in Callers :
            /\ cache' # cache =>
                  \/ cache' = Absent
                  \/ /\ cache' \in ValidatedResults
                     /\ \E q \in Callers :
                           /\ pc[q] = "running" /\ op[q] = "users"
                           /\ pc'[q] = "returned" /\ result'[q] = Returned(cache')
            /\ (pc[p] = "running" /\ op[p] = "users"
                  /\ pc'[p] \in {"sleeping", "failed"}) => cache' = cache]_vars
    /\ [](\A p \in Callers :
            op[p] = "users" => cache = Absent \/ cache \in ValidatedResults)

C8_Witness ==
    /\ call[1] = "getUsers" /\ pc[1] = "returned" /\ op[1] = "users"
    /\ Len(thrown[1]) = 2
    /\ thrown[1][1].obj.site = "fetchFreshUsers"
    /\ thrown[1][2].obj.site = "fetchData"
    /\ cache \in ValidatedResults /\ cache = result[1].v

\* C9: every user in a list returned by getUsers or getCachedUsers is one
\* the user schema accepts.
C9_ReturnedUsersValid ==
    \A p \in Callers :
        (/\ call[p] \in {"getUsers", "getCachedUsers"}
         /\ pc[p] = "returned" /\ result[p].v.t = "list") =>
            \A i \in 1..Len(result[p].v.v) : UserSchema(result[p].v.v[i]).ok

(***************************************************************************)
(* UserWeatherConverter: properties                                        *)
(***************************************************************************)
\* C10: convertUserToUserWeatherData never raises; what it returns is an
\* object with a user, and its weather is null exactly when validation,
\* geocoding or the weather fetch failed: null with no call of the
\* geocoding client after a validation failure, null after a rejected
\* geocoding or weather call, and the reading of the weather client when
\* all three succeeded.
C10_ConvertNeverRaises ==
    \A i \in Slots :
        /\ convPc[i] # "raised"
        /\ convPc[i] = "done" =>
              /\ converted[i].t = "value"
              /\ converted[i].weather.t = "null" <=> failure[i] # "none"
              /\ failure[i] = "none" =>
                    /\ UserSchema(user[i]).ok
                    /\ Len(geoCalls[i]) = 1 /\ Len(weatherCalls[i]) = 1
                    /\ converted[i].weather \in WeatherReadings
              /\ failure[i] = "validation" => geoCalls[i] = <<>>
              /\ failure[i] = "geocoding" =>
                    Len(geoCalls[i]) = 1 /\ weatherCalls[i] = <<>>
              /\ failure[i] = "weather" => Len(weatherCalls[i]) = 1

C10_Witness ==
    /\ convPc[1] = "done" /\ failure[1] = "weather"
    /\ converted[1].t = "value" /\ converted[1].weather.t = "null"
    /\ Len(weatherCalls[1]) = 1

\* C11: a conversion whose input the user schema rejects returns the input
\* object itself with weather null, and has called neither the geocoding
\* client nor the weather client.
C11_InvalidInputReturnedRaw ==
    \A i \in Slots :
        (convPc[i] # "idle" /\ ~UserSchema(user[i]).ok) =>
            /\ convPc[i] = "done" /\ failure[i] = "validation"
            /\ converted[i] = Converted(user[i], NullWeather)
            /\ geoCalls[i] = <<>> /\ weatherCalls[i] = <<>>

C11_Witness ==
    /\ convPc[1] = "done" /\ user[1] = UserNoCountry
    /\ converted[1].t = "value" /\ converted[1].user = UserNoCountry
    /\ converted[1].weather.t = "null" /\ geoCalls[1] = <<>>

\* C12: a conversion whose input passed validation and whose geocoding or
\* weather call failed returns the validated (trimmed) user with weather
\* null.
C12_FailureReturnsValidated ==
    \A i \in Slots :
        (convPc[i] = "done" /\ failure[i] \in {"geocoding", "weather"}) =>
            converted[i] = Converted(validatedUser[i], NullWeather)

\* C13: a conversion calls the geocoding client at most once and the
\* weather client at most once, also after either of them failed; the
\* weather client is called only once the geocoding client has resolved,
\* and with the latitude and longitude it resolved with.
C13_GeocodingBeforeWeather ==
    \A i \in Slots :
        /\ Len(geoCalls[i]) <= 1 /\ Len(weatherCalls[i]) <= 1
        /\ Len(geoResults[i]) <= 1
        /\ convPc[i] = "geocoding" => weatherCalls[i] = <<>>
        /\ weatherCalls[i] # <<>> =>
              /\ Len(geoCalls[i]) = 1 /\ Len(geoResults[i]) = 1
              /\ weatherCalls[i][1].lat = geoResults[i][1].lat
              /\ weatherCalls[i][1].lng = geoResults[i][1].lng
        /\ failure[i] = "geocoding" =>
              Len(geoCalls[i]) = 1 /\ geoResults[i] = <<>> /\ weatherCalls[i] = <<>>
        /\ failure[i] = "weather" =>
              Len(geoCalls[i]) = 1 /\ Len(weatherCalls[i]) = 1

C13_Witness ==
    /\ convPc[1] = "done" /\ failure[1] = "none"
    /\ geoResults[1] = <<[lat |-> 51, lng |-> 1]>>
    /\ weatherCalls[1] = <<[lat |-> 51, lng |-> 1]>>
    /\ converted[1].weather \in WeatherReadings

\* the list convertUsersToUserWeatherData converts: its validated argument
BatchValidated == UsersArraySchema(batchUsers).data

\* C14: a batch that returns has one result per input user, the k-th
\* result being the outcome of converting the k-th (validated) user,
\* whichever conversion settled first; an element whose geocoding failed
\* has weather null, and an element none of whose calls failed has the
\* reading the weather client gave it.
C14_BatchKeepsInputOrder ==
    batchPc = "returned" =>
        /\ batchResults.t = "value"
        /\ Len(batchResults.v) = Len(batchUsers.v)
        /\ \A k \in 1..Len(batchUsers.v) :
              /\ batchResults.v[k] = converted[k]
              /\ batchResults.v[k].user = BatchValidated[k]
              /\ failure[k] = "geocoding" => batchResults.v[k].weather.t = "null"
              /\ failure[k] = "none" => batchResults.v[k].weather = BatchReading

C14_Witness ==
    /\ batchPc = "returned" /\ Len(batchUsers.v) = 3
    /\ batchUsers.v[1] # batchUsers.v[3]
    /\ firstSettled = 3
    /\ failure[1] = "none" /\ failure[2] = "geocoding" /\ failure[3] = "none"
    /\ batchResults.v[1].weather.t = "data"
    /\ batchResults.v[2].weather.t = "null"
    /\ batchResults.v[3].weather.t = "data"

\* C15 as stated: a batch fails only when its input is not a list or is
\* an empty list.
C15_FailsOnlyOnShape ==
    batchPc = "failed" => (batchUsers.t # "list" \/ Len(batchUsers.v) = 0)

\* C15, amended: a batch fails exactly when validateUsers rejects its
\* input (not a list, empty, or an element the user schema rejects), with
\* an "Invalid users array" Error and before any conversion is started;
\* once the list passed validation the batch does not fail, and an element
\* whose validation, geocoding or weather call failed is returned with
\* weather null.
C15_FailsOnlyOnValidation ==
    /\ batchPc = "failed" =>
          /\ ~UsersArraySchema(batchUsers).ok
          /\ batchResults.t = "error" /\ batchResults.e.name = "Error"
          /\ batchResults.e.obj.site = "convertUsersToUserWeatherData"
          /\ \A i \in Slots : convPc[i] = "idle"
    /\ batchPc \in {"awaiting", "returned"} => UsersArraySchema(batchUsers).ok
    /\ batchPc = "returned" =>
          \A k \in 1..Len(batchUsers.v) :
              failure[k] # "none" => batchResults.v[k].weather.t = "null"

C15_Witness ==
    /\ batchPc = "returned" /\ batchResults.t = "value"
    /\ failure[1] = "weather" /\ failure[2] = "geocoding"
    /\ batchResults.v[1].weather.t = "null" /\ batchResults.v[2].weather.t = "null"

(***************************************************************************)
(* UserValidator: properties                                               *)
(***************************************************************************)
\* the property is a string with something other than spaces in it
NonEmptyAfterTrim(f) == f.t = "string" /\ \E k \in 1..Len(f.v) : f.v[k] # " "

\* r is f with the spaces around it removed
IsTrimOf(r, f) ==
    /\ IsTrimmedNonEmpty(r)
    /\ \E l \in 0..Len(f.v), q \in 0..Len(f.v) : f.v = Spaces(l) \o r.v \o Spaces(q)

\* every field is present, non-empty after trimming, picture.large a URL
WellFormed(u) ==
    /\ u.obj /\ u.hasName /\ u.hasLocation /\ u.hasPicture
    /\ NonEmptyAfterTrim(u.first) /\ NonEmptyAfterTrim(u.last)
    /\ NonEmptyAfterTrim(u.city) /\ NonEmptyAfterTrim(u.country)
    /\ u.large.t = "string" /\ IsUrl(u.large.v)

\* C16: validateUser applied to an input whose four strings are present
\* and non-empty after trimming and whose picture.large is a URL returns a
\* user with each of the four strings stripped of its surrounding spaces
\* and picture.large as given.
C16_WellFormedAccepted ==
    (validating = "user" /\ outcome # NoOutcome /\ WellFormed(input)) =>
        /\ outcome.t = "value"
        /\ IsTrimOf(outcome.v.first, input.first)
        /\ IsTrimOf(outcome.v.last, input.last)
        /\ IsTrimOf(outcome.v.city, input.city)
        /\ IsTrimOf(outcome.v.country, input.country)
        /\ outcome.v.large = input.large

C16_Witness ==
    /\ validating = "user" /\ outcome.t = "value"
    /\ input.first = Str(<<" ", "a", " ">>) /\ outcome.v.first = Str(<<"a">>)
    /\ input.country = Str(<<"b", " ">>) /\ outcome.v.country = Str(<<"b">>)
    /\ outcome.v.large = GoodUrl

\* C17: validateUser raises a ZodError and returns nothing for every input
\* that is not well-formed (a string missing or empty after trimming, or
\* picture.large not a URL), so a user it returns has four non-empty
\* strings.
C17_IllFormedRejected ==
    (validating = "user" /\ outcome # NoOutcome) =>
        /\ ~WellFormed(input) =>
              /\ outcome.t = "error" /\ outcome.e.name = "ZodError"
              /\ outcome.v = NullUser
        /\ outcome.t = "value" =>
              /\ outcome.v.first.v # <<>> /\ outcome.v.last.v # <<>>
              /\ outcome.v.city.v # <<>> /\ outcome.v.country.v # <<>>

C19_SafeAgreesWithThrowing ==
    (outcome # NoOutcome /\ safeOutcome # NoSafeOutcome) =>
        /\ safeOutcome.success <=> outcome.t = "value"
        /\ safeOutcome.success =>
              safeOutcome.data = outcome.v /\ safeOutcome.error = <<>>
        /\ ~safeOutcome.success =>
              /\ safeOutcome.data = (IF validating = "user" THEN NullUser ELSE <<>>)
              /\ safeOutcome.error =
                    <<IF validating = "user" THEN "User validation failed: "
                      ELSE "Users validation failed: ">> \o outcome.e.message

C19_Witness ==
    /\ validating = "user" /\ input.last = Str(<<"b", " ">>)
    /\ outcome.t = "value" /\ safeOutcome.success
    /\ safeOutcome.data = outcome.v /\ safeOutcome.data.last = Str(<<"b">>)

(***************************************************************************)
(* UserService: the error of a failed call                                 *)
(***************************************************************************)
\* the final attempt of a failed call was rejected by validateApiResponse
LastFailedValidation(p) ==
    thrown[p][Len(thrown[p])].obj.site \in {"fetchFreshUsers", "zod"}

FailedUsersCall(p) ==
    call[p] \in {"getUsers", "fetchFreshUsers"} /\ pc[p] = "failed"

OnlyValidationFailures(p) ==
    /\ thrown[p] # <<>>
    /\ \A k \in 1..Len(thrown[p]) : thrown[p][k].obj.site = "fetchFreshUsers"

\* C21: a users call all of whose attempts so far were rejected by
\* validateApiResponse goes on retrying: it has fetched once per attempt,
\* waited min(1000 * 2^(k-1), 5000) after attempt k, and it fails only
\* when attempt DEFAULT_RETRY_ATTEMPTS was rejected as well.
C21_ValidationFailureRetried ==
    \A p \in Callers : (op[p] = "users" /\ OnlyValidationFailures(p)) =>
        /\ Len(fetches[p]) = invoked[p]
        /\ invoked[p] = (IF pc[p] = "sleeping" \/ pc[p] = "failed"
                         THEN Len(thrown[p]) ELSE Len(thrown[p]) + 1)
        /\ \A k \in 1..Len(waits[p]) : waits[p][k] = ExpectedDelay(UsersRetryOptions, k)
        /\ pc[p] = "sleeping" => Len(waits[p]) = Len(thrown[p])
        /\ pc[p] = "failed" =>
              /\ Len(thrown[p]) = DEFAULT_RETRY_ATTEMPTS
              /\ invoked[p] = DEFAULT_RETRY_ATTEMPTS
              /\ Len(waits[p]) = DEFAULT_RETRY_ATTEMPTS - 1
        /\ Len(thrown[p]) < DEFAULT_RETRY_ATTEMPTS => pc[p] # "failed"

C21_Witness ==
    /\ op[1] = "users" /\ pc[1] = "failed" /\ OnlyValidationFailures(1)
    /\ Len(fetches[1]) = 3 /\ waits[1] = <<1000, 2000>>

\* C23: a conversion in which validation, geocoding and the weather call
\* all succeeded returns the user as the schema parsed it (the four
\* strings trimmed, picture.large as given) and the very value the weather
\* client resolved with, stale flag included.
C23_SuccessPassesWeatherThrough ==
    /\ [](\A i \in Slots : (convPc[i] = "done" /\ failure[i] = "none") =>
            /\ converted[i].t = "value"
            /\ converted[i].user = UserSchema(user[i]).data
            /\ converted[i].user.first.v = Trim(user[i].first.v)
            /\ converted[i].user.country.v = Trim(user[i].country.v)
            /\ converted[i].user.large = user[i].large
            /\ converted[i].weather \in WeatherReadings)
    /\ [][\A i \in Slots, w \in WeatherReadings :
            (convPc[i] = "weather" /\ WeatherFulfils(i, w)) =>
                /\ convPc'[i] = "done" /\ failure'[i] = "none"
                /\ converted'[i].weather = w]_vars

C23_Witness ==
    /\ convPc[1] = "done" /\ failure[1] = "none" /\ user[1] = UserPadded
    /\ converted[1].user.first = Str(<<"a">>) /\ converted[1].user.last = Str(<<"b">>)
    /\ converted[1].weather.t = "data" /\ converted[1].weather.stale

\* C24: validateUser applied to a user validateUser returned returns that
\* same user.
C24_ValidateUserIdempotent ==
    (validating = "user" /\ outcome.t = "value") =>
        validateUser(outcome.v) = outcome

\* C25: when a users call has returned, the cache holds the returned list
\* and reading it with getCachedUsers gives that list and leaves the entry;
\* and a getCachedUsers call made on a list the service validated and
\* wrote returns it and leaves it in place.
C25_CacheRoundTrip ==
    /\ [](\A p \in Callers : (op[p] = "users" /\ pc[p] = "returned") =>
            /\ cache = result[p].v
            /\ getCachedUsers(build, cache) = [ret |-> result[p].v, cache |-> cache])
    /\ [][\A p \in Callers :
            (cache \in ValidatedResults /\ GetCachedUsers(p)) =>
                result'[p] = Returned(cache) /\ cache' = cache]_vars

\* some getUsers call is between its start and its completion on the
\* fetch path
Fetching(p) == call[p] = "getUsers" /\ op[p] = "users" /\ pc[p] # "idle"

\* C27: when the response of an attempt of a getUsers call passes
\* validateApiResponse, the call returns at that attempt with the whole
\* validated results list, which is also what that step caches, whether
\* or not the list is as long as the requested count: nothing is thrown,
\* no wait is added, nothing is cut.
C27_CountMismatchIgnored ==
    /\ [](\A p \in Callers : (Fetching(p) /\ pc[p] = "returned") =>
            /\ result[p].t = "value" /\ result[p].v \in ValidatedResults
            /\ invoked[p] = Len(thrown[p]) + 1
            /\ Len(waits[p]) = Len(thrown[p]))
    /\ [][\A p \in Callers, r \in OverlapResponses :
            (UserApiResponseSchema(r).ok /\ FetchFulfils(p, r)) =>
                /\ pc'[p] = "returned"
                /\ result'[p] = Returned(List(UserApiResponseSchema(r).data.results))
                /\ Len(result'[p].v.v) = Len(r.results.v)
                /\ cache' = result'[p].v
                /\ thrown'[p] = thrown[p] /\ waits'[p] = waits[p]]_vars

C27_Witness ==
    /\ call[1] = "getUsers" /\ op[1] = "users" /\ pc[1] = "returned"
    /\ count[1] = 1 /\ Len(result[1].v.v) = 2
    /\ cache = result[1].v /\ thrown[1] = <<>>

\* C28: a direct retryApiCall whose maxAttempts is zero or negative ends at
\* once in failure: the operation is never invoked, there is no wait, and
\* what it raises is the initial Error with message "Unknown error", never
\* a value.
C28_NoAttemptsRaisesUnknown ==
    /\ [](\A p \in Callers :
            (call[p] = "retryApiCall" /\ pc[p] # "idle" /\ opts[p].maxAttempts <= 0) =>
                /\ pc[p] = "failed"
                /\ invoked[p] = 0 /\ thrown[p] = <<>> /\ waits[p] = <<>>
                /\ result[p].t = "error"
                /\ result[p].e.isError /\ result[p].e.name = "Error"
                /\ result[p].e.message = <<"Unknown error">>)
    /\ [][\A p \in Callers, o \in OptionChoices :
            (o.maxAttempts <= 0 /\ RetryApiCall(p, o)) =>
                pc'[p] = "failed" /\ invoked'[p] = 0 /\ result'[p] = Raised(UnknownError)]_vars

C28_Witness ==
    /\ call[1] = "retryApiCall" /\ pc[1] = "failed"
    /\ opts[1].maxAttempts = -1 /\ invoked[1] = 0
    /\ result[1] = Raised(UnknownError)

\* C26: however the steps of two getUsers calls interleave, every change
\* of the cache entry either removes it or writes the complete validated
\* results list of the attempt that fulfilled in that very step, and an
\* attempt that fails writes nothing; so from the moment a call starts
\* fetching the entry is absent or the whole validated list of one
\* successful attempt, never a part of one and never raw data.
C26_CacheAbsentOrWholeList ==
    /\ [][cache' # cache =>
            \/ cache' = Absent
            \/ \E q \in Callers, r \in OverlapResponses :
                  /\ pc[q] = "running" /\ op[q] = "users"
                  /\ UserApiResponseSchema(r).ok
                  /\ cache' = List(UserApiResponseSchema(r).data.results)
                  /\ Len(cache'.v) = Len(r.results.v)
                  /\ pc'[q] = "returned" /\ result'[q] = Returned(cache')]_vars
    /\ []((\E p \in Callers : Fetching(p)) =>
            cache = Absent \/ cache \in ValidatedResults)

C26_Witness ==
    /\ Fetching(1) /\ Fetching(2)
    /\ pc[1] = "returned" /\ pc[2] = "returned"
    /\ Len(thrown[1]) = 1 /\ Len(thrown[2]) = 1
    /\ Len(result[1].v.v) = 2 /\ Len(result[2].v.v) = 1
    /\ cache = result[2].v

\* C22: when every pending operation, fetch, geocoding call, weather call
\* and delay settles, a started retryApiCall or getUsers call ends with a
\* result or with its final failure, and a started batch conversion ends
\* returned or failed; a retry loop never invokes its operation more than
\* maxAttempts times (not at all when maxAttempts is below one).
C22_CallsComplete ==
    /\ \A p \in Callers :
          (pc[p] \in {"running", "sleeping"}) ~> (pc[p] \in {"returned", "failed"})
    /\ (batchPc = "awaiting") ~> (batchPc \in {"returned", "failed"})
    /\ [](\A p \in Callers : op[p] # "none" =>
            /\ opts[p].maxAttempts >= 1 => invoked[p] <= opts[p].maxAttempts
            /\ opts[p].maxAttempts < 1 => invoked[p] = 0
            /\ pc[p] \in {"returned", "failed"} => result[p] # NoResult)
    /\ [](batchPc \in {"returned", "failed"} => batchResults # NoBatchResult)

C22_Witness ==
    /\ call[1] = "getUsers" /\ pc[1] = "failed"
    /\ invoked[1] = DEFAULT_RETRY_ATTEMPTS /\ Len(waits[1]) = 2
    /\ result[1].t = "error"
    /\ batchPc = "returned" /\ batchUsers = List(<<UserA, UserBlank>>)
    /\ convPc[1] = "done" /\ failure[1] = "weather"
    /\ convPc[2] = "done" /\ failure[2] = "validation"

====
